---- MODULE Spec2Model ----
(***************************************************************************)
(* Model of the Mongo Data Extractor (src/app.py): the handler of the      *)
(* "Fetch & Generate Download" button, one action per statement group of   *)
(* the try / except / finally block, with the libraries it calls (json,    *)
(* bson.json_util, pymongo, pandas, streamlit) modelled by the outcomes    *)
(* those calls can have.                                                   *)
(***************************************************************************)
EXTENDS Integers, Sequences, FiniteSets, TLC

\* Largest number of documents a query returns in the model.
MaxRecords == 2

VARIABLES
    pc,            \* position of the handler
    filter_input,  \* text of the filter text area, by its shape
    mongo_uri,     \* text of the URI field, by its shape
    file_format,   \* the export format radio
    server,        \* what the MongoDB host does to the handshake
    client,        \* the local `client`
    connected,     \* client.server_info() returned
    query_filter,  \* the local `query_filter`
    data,          \* the local `data`
    df,            \* the local `df`
    buffer,        \* the local `buffer`
    artifact,      \* what st.download_button was given
    success,       \* st.success shown, with the record count
    warning,       \* st.warning("No records found ...") shown
    failure,       \* kind of the st.error banner shown
    exc,           \* exception in flight
    raised,        \* first exception raised in this run and where
    uncaught,      \* exception that left the handler
    log,           \* logging records of this run
    closeCalls,    \* number of client.close() calls of this run
    queries,       \* number of collection.find() calls of this run
    trace          \* stages executed in this run, in order

vars == <<pc, filter_input, mongo_uri, file_format, server, client, connected,
          query_filter, data, df, buffer, artifact, success, warning, failure,
          exc, raised, uncaught, log, closeCalls, queries, trace>>

-----------------------------------------------------------------------------
(* Inputs *)

\* Shapes of the filter text: what json.loads and the bson object hook see.
FilterTexts ==
    { [wellformed |-> w, top |-> t, tag |-> g] :
        w \in BOOLEAN, t \in {"object", "array"}, g \in {"none", "good", "bad"} }

UriTexts == {"valid", "invalid"}
Formats == {"CSV", "Excel"}
Servers == {"ok", "unreachable", "rejects"}

\* Fields of a document, in the order the driver returns them.
FieldOrder == <<"_id", "ref">>
Fields == {"_id", "ref"}

\* A stored document always has an _id; any field may hold an ObjectId.
Records ==
    { r \in [Fields -> {"absent", "ObjectId", "int"}] : r["_id"] # "absent" }

RecordSets == UNION { [1..n -> Records] : n \in 0..MaxRecords }

-----------------------------------------------------------------------------
(* Exceptions *)

Parent(c) ==
    CASE c = "JSONDecodeError" -> "ValueError"
      [] c = "ValueError" -> "Exception"
      [] c = "TypeError" -> "Exception"
      [] c = "MemoryError" -> "Exception"
      [] c = "ImportError" -> "Exception"
      [] c = "InvalidId" -> "BSONError"
      [] c = "BSONError" -> "Exception"
      [] c = "ServerSelectionTimeoutError" -> "AutoReconnect"
      [] c = "AutoReconnect" -> "ConnectionFailure"
      [] c = "ConnectionFailure" -> "PyMongoError"
      [] c = "CursorNotFound" -> "OperationFailure"
      [] c = "OperationFailure" -> "PyMongoError"
      [] c = "InvalidURI" -> "ConfigurationError"
      [] c = "ConfigurationError" -> "PyMongoError"
      [] c = "PyMongoError" -> "Exception"
      [] c = "Exception" -> "BaseException"
      [] c = "StopException" -> "ScriptControlException"
      [] c = "ScriptControlException" -> "BaseException"
      [] OTHER -> "object"

RECURSIVE IsInstance(_, _)
IsInstance(e, cls) ==
    IF e = cls THEN TRUE
    ELSE IF e \in {"object", "None"} THEN FALSE
    ELSE IsInstance(Parent(e), cls)

\* The except clauses of the outer try, in source order.
ExceptClauses ==
    << [cls |-> "ServerSelectionTimeoutError", kind |-> "ConnectionTimeout",
        entry |-> "Connection Timeout"],
       [cls |-> "OperationFailure", kind |-> "AuthorizationFailure",
        entry |-> "Operational Failure"],
       [cls |-> "Exception", kind |-> "Unclassified",
        entry |-> "Unexpected Error"] >>

RECURSIVE FirstMatch(_, _, _)
FirstMatch(clauses, e, i) ==
    IF i > Len(clauses) THEN 0
    ELSE IF IsInstance(e, clauses[i].cls) THEN i
    ELSE FirstMatch(clauses, e, i + 1)

NoClause == [cls |-> "None", kind |-> "None", entry |-> "None"]

Handler(clauses, e) ==
    LET i == FirstMatch(clauses, e, 1)
    IN  IF i = 0 THEN NoClause ELSE clauses[i]

ClassifyBroadFirst(e) ==
    Handler(<<ExceptClauses[3], ExceptClauses[1], ExceptClauses[2]>>, e)

\* The except clause of the outer try that handles e, NoClause when none does.
Classify(e) == Handler(ExceptClauses, e)

\* except json.JSONDecodeError of the inner try.
InnerCatches(e) == IsInstance(e, "JSONDecodeError")

-----------------------------------------------------------------------------
(* Library calls *)

\* json.loads(filter_input, object_hook=json_util.object_hook): the decoder
\* rejects malformed text; the hook converts a tagged object or raises.
Loads(text) ==
    IF ~text.wellformed
    THEN {[ok |-> FALSE, exc |-> "JSONDecodeError", value |-> "unbound"]}
    ELSE IF text.tag = "bad"
    THEN { [ok |-> FALSE, exc |-> e, value |-> "unbound"] :
             e \in {"InvalidId", "TypeError", "ValueError"} }
    ELSE IF text.top = "array"
    THEN {[ok |-> TRUE, exc |-> "None", value |-> "list"]}
    ELSE IF text.tag = "good"
    THEN {[ok |-> TRUE, exc |-> "None", value |-> "dict_typed"]}
    ELSE {[ok |-> TRUE, exc |-> "None", value |-> "dict"]}

\* pymongo.MongoClient(uri, serverSelectionTimeoutMS=5000)
NewClient(uri) ==
    IF uri = "valid" THEN [ok |-> TRUE, exc |-> "None"]
    ELSE [ok |-> FALSE, exc |-> "InvalidURI"]

\* client.server_info()
ServerInfo(s) ==
    CASE s = "unreachable" -> [ok |-> FALSE, exc |-> "ServerSelectionTimeoutError"]
      [] s = "rejects" -> [ok |-> FALSE, exc |-> "OperationFailure"]
      [] OTHER -> [ok |-> TRUE, exc |-> "None"]

\* Exceptions list(collection.find(query_filter)) can raise.
FindErrors(q) ==
    IF q \in {"dict", "dict_typed"}
    THEN {"OperationFailure", "CursorNotFound", "AutoReconnect",
          "ServerSelectionTimeoutError"}
    ELSE {"TypeError"}

\* Record sets list(collection.find(query_filter)) can return.
FindResults(q) == IF q \in {"dict", "dict_typed"} THEN RecordSets ELSE {}

-----------------------------------------------------------------------------
(* pandas *)

NoDf == [built |-> FALSE, columns |-> <<>>, rows |-> <<>>]

Keys(r) == { f \in Fields : r[f] # "absent" }

RECURSIVE SelectNew(_, _, _)
\* The fields of `order` from position i on that are in `new`, in that order.
SelectNew(order, i, new) ==
    IF i > Len(order) THEN <<>>
    ELSE (IF order[i] \in new THEN <<order[i]>> ELSE <<>>)
         \o SelectNew(order, i + 1, new)

Range(s) == { s[i] : i \in 1..Len(s) }

RECURSIVE ColumnsOf(_, _, _)
\* Union of the records' keys, in first-seen order.
ColumnsOf(records, i, cols) ==
    IF i > Len(records) THEN cols
    ELSE ColumnsOf(records, i + 1,
                   cols \o SelectNew(FieldOrder, 1, Keys(records[i]) \ Range(cols)))

\* pd.DataFrame(data): a missing key of a column becomes NaN.
DataFrame(records) ==
    LET cols == ColumnsOf(records, 1, <<>>)
    IN  [built |-> TRUE,
         columns |-> cols,
         rows |-> [i \in 1..Len(records) |->
                     [f \in Fields |->
                        IF f \in Range(cols) /\ records[i][f] = "absent"
                        THEN "NaN" ELSE records[i][f]]]]

\* str() of a cell value.
Str(v) ==
    CASE v = "ObjectId" -> "hex"
      [] v = "int" -> "digits"
      [] v = "NaN" -> "nan"
      [] OTHER -> v

\* df[col].astype(str)
AsTypeStr(d, col) ==
    [d EXCEPT !.rows = [i \in 1..Len(d.rows) |->
                          [d.rows[i] EXCEPT ![col] = Str(d.rows[i][col])]]]

clean_data(d) ==
    IF "_id" \in Range(d.columns) THEN AsTypeStr(d, "_id") ELSE d

HoldsObjectId(d, col) == \E i \in 1..Len(d.rows) : d.rows[i][col] = "ObjectId"

NoBuffer == [complete |-> FALSE, pos |-> 0, header |-> <<>>, rows |-> <<>>]

\* A cell as df.to_csv writes it.
CsvCell(v) == IF v = "NaN" THEN "" ELSE Str(v)

\* A cell as df.to_excel writes it when it converts the value itself.
ExcelCell(v) ==
    CASE v = "NaN" -> ""
      [] v = "int" -> "number"
      [] OTHER -> Str(v)

Cell(fmt, v) == IF fmt = "CSV" THEN CsvCell(v) ELSE ExcelCell(v)

\* The buffer after the table is written and buffer.seek(0).
Sheet(d, fmt) ==
    [complete |-> TRUE, pos |-> 0, header |-> d.columns,
     rows |-> [i \in 1..Len(d.rows) |->
                 [j \in 1..Len(d.columns) |-> Cell(fmt, d.rows[i][d.columns[j]])]]]

\* df.to_csv(buffer, index=False)
to_csv(d) ==
    {[ok |-> TRUE, exc |-> "None", buffer |-> Sheet(d, "CSV")],
     [ok |-> FALSE, exc |-> "MemoryError", buffer |-> NoBuffer]}

\* df.to_excel(buffer, index=False, engine='openpyxl'): the engine may be
\* missing, and a cell holding an ObjectId is written as text or refused
\* with ValueError, depending on the pandas/openpyxl build.
to_excel(d) ==
    {[ok |-> TRUE, exc |-> "None", buffer |-> Sheet(d, "Excel")],
     [ok |-> FALSE, exc |-> "ImportError", buffer |-> NoBuffer]}
    \cup (IF \E c \in Range(d.columns) : HoldsObjectId(d, c)
          THEN {[ok |-> FALSE, exc |-> "ValueError", buffer |-> NoBuffer]}
          ELSE {})

Serialize(d, fmt) == IF fmt = "CSV" THEN to_csv(d) ELSE to_excel(d)

FileName(fmt) == IF fmt = "CSV" THEN "mongo_export.csv" ELSE "mongo_export.xlsx"

MimeType(fmt) ==
    IF fmt = "CSV" THEN "text/csv"
    ELSE "application/vnd.openxmlformats-officedocument.spreadsheetml.sheet"

NoArtifact == [handed |-> FALSE, data |-> NoBuffer, file_name |-> "", mime |-> ""]

-----------------------------------------------------------------------------
(* The handler *)

Stages == <<"ParsingFilter", "Connecting", "Checking", "Querying",
            "Normalizing", "Exporting", "Ready">>

\* The statement group after `stage` in the try body.
NextStage(stage) ==
    IF \E i \in 1..(Len(Stages) - 1) : Stages[i] = stage
    THEN Stages[(CHOOSE i \in 1..(Len(Stages) - 1) : Stages[i] = stage) + 1]
    ELSE "Finally"

NoRaise == [exc |-> "None", at |-> "None"]

RaiseSuppressed(e) ==
    /\ exc' = exc
    /\ raised' = IF raised = NoRaise THEN [exc |-> e, at |-> pc] ELSE raised
    /\ pc' = NextStage(pc)

\* An exception raised in the try body leaves the body for the except clauses.
Raise(e) ==
    /\ exc' = e
    /\ raised' = IF raised = NoRaise THEN [exc |-> e, at |-> pc] ELSE raised
    /\ pc' = "Except"

BranchSkipNormalize(d) == IF Len(d) = 0 THEN "EmptyResult" ELSE "Exporting"

BranchNeverEmpty(d) == "Normalizing"

\* if not data: ... else: ...
Branch(d) == IF Len(d) = 0 THEN "EmptyResult" ELSE "Normalizing"

ShouldCloseIfNoError(c) == c # "None" /\ raised = NoRaise

ShouldCloseIfConnected(c) == c # "None" /\ connected

\* if client:
ShouldClose(c) == c # "None"

Init ==
    /\ pc = "Idle"
    /\ filter_input \in FilterTexts
    /\ mongo_uri \in UriTexts
    /\ file_format \in Formats
    /\ server \in Servers
    /\ client = "None"
    /\ connected = FALSE
    /\ query_filter = "unbound"
    /\ data = <<>>
    /\ df = NoDf
    /\ buffer = NoBuffer
    /\ artifact = NoArtifact
    /\ success = -1
    /\ warning = FALSE
    /\ failure = "None"
    /\ exc = "None"
    /\ raised = NoRaise
    /\ uncaught = "None"
    /\ log = <<>>
    /\ closeCalls = 0
    /\ queries = 0
    /\ trace = <<>>

\* The user edits the form between two runs.
Edit ==
    /\ pc = "Done"
    /\ pc' = "Idle"
    /\ filter_input' \in FilterTexts
    /\ mongo_uri' \in UriTexts
    /\ file_format' \in Formats
    /\ server' \in Servers
    /\ UNCHANGED <<client, connected, query_filter, data, df, buffer, artifact,
                   success, warning, failure, exc, raised, uncaught, log,
                   closeCalls, queries, trace>>

\* st.button(...) is pressed: the script runs from a fresh page; client = None.
Click ==
    /\ pc = "Idle"
    /\ pc' = "ParsingFilter"
    /\ client' = "None"
    /\ connected' = FALSE
    /\ query_filter' = "unbound"
    /\ data' = <<>>
    /\ df' = NoDf
    /\ buffer' = NoBuffer
    /\ artifact' = NoArtifact
    /\ success' = -1
    /\ warning' = FALSE
    /\ failure' = "None"
    /\ exc' = "None"
    /\ raised' = NoRaise
    /\ uncaught' = "None"
    /\ log' = <<>>
    /\ closeCalls' = 0
    /\ queries' = 0
    /\ trace' = <<>>
    /\ UNCHANGED <<filter_input, mongo_uri, file_format, server>>

\* 1. Parse Filter
ParseFilter ==
    /\ pc = "ParsingFilter"
    /\ trace' = Append(trace, "ParsingFilter")
    /\ \E r \in Loads(filter_input) :
         IF r.ok
         THEN /\ query_filter' = r.value
              /\ pc' = NextStage(pc)
              /\ UNCHANGED <<failure, log, exc, raised>>
         ELSE IF InnerCatches(r.exc)
         THEN \* st.error, logging.error, st.stop()
              /\ failure' = "FilterSyntax"
              /\ log' = Append(log, "Invalid JSON input")
              /\ Raise("StopException")
              /\ UNCHANGED query_filter
         ELSE /\ Raise(r.exc)
              /\ UNCHANGED <<query_filter, failure, log>>
    /\ UNCHANGED <<filter_input, mongo_uri, file_format, server, client,
                   connected, data, df, buffer, artifact, success, warning,
                   uncaught, closeCalls, queries>>

\* 2. Connect to MongoDB: the client is constructed
Connect ==
    /\ pc = "Connecting"
    /\ trace' = Append(trace, "Connecting")
    /\ log' = Append(log, "Attempting to connect")
    /\ LET r == NewClient(mongo_uri)
       IN  IF r.ok
           THEN /\ client' = "MongoClient"
                /\ pc' = NextStage(pc)
                /\ UNCHANGED <<exc, raised>>
           ELSE /\ Raise(r.exc)
                /\ UNCHANGED client
    /\ UNCHANGED <<filter_input, mongo_uri, file_format, server, connected,
                   query_filter, data, df, buffer, artifact, success, warning,
                   failure, uncaught, closeCalls, queries>>

\* Trigger a connection check: client.server_info()
Check ==
    /\ pc = "Checking"
    /\ trace' = Append(trace, "Checking")
    /\ LET r == ServerInfo(server)
       IN  IF r.ok
           THEN /\ connected' = TRUE
                /\ log' = Append(log, "Connection successful")
                /\ pc' = NextStage(pc)
                /\ UNCHANGED <<exc, raised>>
           ELSE /\ Raise(r.exc)
                /\ UNCHANGED <<connected, log>>
    /\ UNCHANGED <<filter_input, mongo_uri, file_format, server, client,
                   query_filter, data, df, buffer, artifact, success, warning,
                   failure, uncaught, closeCalls, queries>>

\* 3. Fetch Data: data = list(collection.find(query_filter))
Query ==
    /\ pc = "Querying"
    /\ trace' = Append(trace, "Querying")
    /\ log' = Append(log, "Querying collection")
    /\ queries' = queries + 1
    /\ \/ \E d \in FindResults(query_filter) :
            /\ data' = d
            /\ pc' = Branch(d)
            /\ UNCHANGED <<exc, raised>>
       \/ \E e \in FindErrors(query_filter) :
            /\ Raise(e)
            /\ UNCHANGED data
    /\ UNCHANGED <<filter_input, mongo_uri, file_format, server, client,
                   connected, query_filter, df, buffer, artifact, success,
                   warning, failure, uncaught, closeCalls>>

\* if not data: st.warning(msg); logging.warning(msg)
EmptyResult ==
    /\ pc = "EmptyResult"
    /\ trace' = Append(trace, "EmptyResult")
    /\ warning' = TRUE
    /\ log' = Append(log, "No records found")
    /\ pc' = "Finally"
    /\ UNCHANGED <<filter_input, mongo_uri, file_format, server, client,
                   connected, query_filter, data, df, buffer, artifact, success,
                   failure, exc, raised, uncaught, closeCalls, queries>>

\* 4. Convert to DataFrame: df = clean_data(pd.DataFrame(data))
Normalize ==
    /\ pc = "Normalizing"
    /\ trace' = Append(trace, "Normalizing")
    /\ log' = Append(log, "Retrieved records")
    /\ \/ /\ df' = clean_data(DataFrame(data))
          /\ pc' = NextStage(pc)
          /\ UNCHANGED <<exc, raised>>
       \/ /\ Raise("MemoryError")
          /\ UNCHANGED df
    /\ UNCHANGED <<filter_input, mongo_uri, file_format, server, client,
                   connected, query_filter, data, buffer, artifact, success,
                   warning, failure, uncaught, closeCalls, queries>>

\* 5. Prepare Download Buffer
Export ==
    /\ pc = "Exporting"
    /\ trace' = Append(trace, "Exporting")
    /\ \E r \in Serialize(df, file_format) :
         /\ buffer' = r.buffer
         /\ IF r.ok
            THEN pc' = NextStage(pc) /\ UNCHANGED <<exc, raised>>
            ELSE Raise(r.exc)
    /\ UNCHANGED <<filter_input, mongo_uri, file_format, server, client,
                   connected, query_filter, data, df, artifact, success,
                   warning, failure, uncaught, log, closeCalls, queries>>

\* 6. Success & Download Button
Ready ==
    /\ pc = "Ready"
    /\ trace' = Append(trace, "Ready")
    /\ success' = Len(data)
    /\ artifact' = [handed |-> TRUE, data |-> buffer,
                    file_name |-> FileName(file_format),
                    mime |-> MimeType(file_format)]
    /\ log' = Append(log, "Download button generated")
    /\ pc' = "Finally"
    /\ UNCHANGED <<filter_input, mongo_uri, file_format, server, client,
                   connected, query_filter, data, df, buffer, warning, failure,
                   exc, raised, uncaught, closeCalls, queries>>

\* The except clauses: the first one matching the exception reports it; an
\* exception none matches (StopException) stays in flight.
Except ==
    /\ pc = "Except"
    /\ LET h == Classify(exc)
       IN  IF h = NoClause
           THEN UNCHANGED <<failure, log, exc>>
           ELSE /\ failure' = h.kind
                /\ log' = Append(log, h.entry)
                /\ exc' = "None"
    /\ pc' = "Finally"
    /\ UNCHANGED <<filter_input, mongo_uri, file_format, server, client,
                   connected, query_filter, data, df, buffer, artifact, success,
                   warning, raised, uncaught, closeCalls, queries, trace>>

\* finally: if client: client.close(); logging.info(...)
Finally ==
    /\ pc = "Finally"
    /\ pc' = "Done"
    /\ IF ShouldClose(client)
       THEN /\ closeCalls' = closeCalls + 1
            /\ \/ /\ log' = Append(log, "MongoDB connection closed")
                  /\ uncaught' = exc
               \/ /\ uncaught' = "PyMongoError"
                  /\ UNCHANGED log
       ELSE /\ uncaught' = exc
            /\ UNCHANGED <<closeCalls, log>>
    /\ exc' = "None"
    /\ UNCHANGED <<filter_input, mongo_uri, file_format, server, client,
                   connected, query_filter, data, df, buffer, artifact, success,
                   warning, failure, raised, queries, trace>>

Next ==
    \/ Edit
    \/ Click
    \/ ParseFilter
    \/ Connect
    \/ Check
    \/ Query
    \/ EmptyResult
    \/ Normalize
    \/ Export
    \/ Ready
    \/ Except
    \/ Finally

Spec == Init /\ [][Next]_vars

-----------------------------------------------------------------------------
(* Properties *)

RunEnded == pc = "Done"

Logged(entry) == \E i \in 1..Len(log) : log[i] = entry

ErrorEntries ==
    {"Invalid JSON input", "Connection Timeout", "Operational Failure",
     "Unexpected Error"}

ErrorsLogged == Cardinality({ i \in 1..Len(log) : log[i] \in ErrorEntries })

IsPrefix(s, t) == Len(s) <= Len(t) /\ \A i \in 1..Len(s) : s[i] = t[i]

SuccessPath == <<"ParsingFilter", "Connecting", "Checking", "Querying",
                 "Normalizing", "Exporting", "Ready">>

EmptyPath == <<"ParsingFilter", "Connecting", "Checking", "Querying",
               "EmptyResult">>

Malformed == ~filter_input.wellformed

BadTag == filter_input.wellformed /\ filter_input.tag = "bad"

\* C1: close is invoked exactly once per successful connect on every exit
\* path: a run that ends after server_info() returned has made exactly one
\* close call, and no run makes more than one.
C1_CloseOncePerConnect ==
    /\ closeCalls <= 1
    /\ (RunEnded /\ connected) => closeCalls = 1

C1_Witness ==
    /\ RunEnded
    /\ connected
    /\ raised.at = "Exporting"
    /\ closeCalls = 1

C3_BadTagIsFilterSyntax ==
    (BadTag /\ RunEnded) =>
        /\ failure = "FilterSyntax"
        /\ client = "None"
        /\ ~Logged("Attempting to connect")
        /\ query_filter = "unbound"

\* C4: a failure during connect or query is reported as exactly one kind, the
\* one matching the exception: no reachable server gives ConnectionTimeout, a
\* rejected operation gives AuthorizationFailure, anything else Unclassified.
C4_FailureClassified ==
    (RunEnded /\ raised.at \in {"Connecting", "Checking", "Querying"}) =>
        /\ ErrorsLogged = 1
        /\ raised.exc = "ServerSelectionTimeoutError"
              => failure = "ConnectionTimeout"
        /\ raised.exc \in {"OperationFailure", "CursorNotFound"}
              => failure = "AuthorizationFailure"
        /\ raised.exc \in {"InvalidURI", "AutoReconnect", "TypeError"}
              => failure = "Unclassified"
        /\ (raised.at = "Checking" /\ server = "unreachable")
              => failure = "ConnectionTimeout"
        /\ (raised.at = "Checking" /\ server = "rejects")
              => failure = "AuthorizationFailure"

C4_Witness ==
    /\ RunEnded
    /\ raised = [exc |-> "CursorNotFound", at |-> "Querying"]
    /\ failure = "AuthorizationFailure"

Outcomes ==
    (IF artifact.handed THEN {"Success"} ELSE {})
    \cup (IF warning THEN {"EmptyResult"} ELSE {})
    \cup (IF failure # "None" THEN {"Failure"} ELSE {})

\* C5 (as claimed): every error of every stage, connection release included,
\* is caught and reported as a Failure: no run ends with an exception leaving
\* the handler, and every run ends in exactly one outcome.
C5_EveryErrorCaught ==
    RunEnded =>
        /\ uncaught \in {"None", "StopException"}
        /\ Cardinality(Outcomes) = 1
        /\ failure \in {"None", "FilterSyntax", "ConnectionTimeout",
                        "AuthorizationFailure", "Unclassified"}

\* C6: an artifact is handed over only in a run whose stages all completed,
\* and then it is the complete serialization of the records; a run that
\* reports a Failure or an empty result hands over nothing and reports no
\* success.
C6_NoPartialArtifact ==
    /\ artifact.handed =>
          /\ trace = SuccessPath
          /\ raised = NoRaise
          /\ failure = "None"
          /\ ~warning
          /\ artifact.data.complete
          /\ Len(artifact.data.rows) = Len(data)
          /\ success = Len(data)
    /\ (failure # "None" \/ warning) => (~artifact.handed /\ success = -1)

C6_Witness ==
    /\ RunEnded
    /\ artifact.handed
    /\ Len(artifact.data.rows) = MaxRecords
    /\ artifact.file_name = "mongo_export.xlsx"

StagesInOrder ==
    /\ IsPrefix(trace, SuccessPath) \/ IsPrefix(trace, EmptyPath)
    /\ queries <= 1
    /\ queries = 1 => connected
    /\ failure # "None" => pc \in {"Except", "Finally", "Done", "Idle"}

\* C7: the stages of a run execute in the order ParsingFilter, Connecting,
\* Checking, Querying, then EmptyResult or Normalizing, Exporting, Ready, each
\* at most once; a query is issued only after the reachability check
\* succeeded; after a Failure is reported no stage executes until the next
\* run starts.
C7_StagesForward ==
    /\ []StagesInOrder
    /\ [][(failure # "None" /\ pc' # "ParsingFilter")
             => (trace' = trace /\ queries' = queries /\ failure' = failure)]_vars

C7_Witness ==
    /\ RunEnded
    /\ trace = SuccessPath
    /\ queries = 1

QueryReturnedEmpty == queries = 1 /\ raised.at # "Querying" /\ Len(data) = 0

\* C8: a run whose query returned no record ends in the empty-result outcome:
\* the warning is shown, no table, buffer, artifact or success message is
\* produced, no error is reported, and close is called.
C8_EmptyResultOutcome ==
    (RunEnded /\ QueryReturnedEmpty) =>
        /\ warning
        /\ trace = EmptyPath
        /\ failure = "None"
        /\ ErrorsLogged = 0
        /\ ~df.built
        /\ buffer = NoBuffer
        /\ ~artifact.handed
        /\ success = -1
        /\ closeCalls = 1

C8_Witness ==
    /\ RunEnded
    /\ QueryReturnedEmpty
    /\ warning
    /\ Logged("MongoDB connection closed")

\* C9 (as claimed): after normalization no column of the table, whatever its
\* name, holds an ObjectId, and a run that got that far and hit no resource
\* error hands over an artifact whose cells are all text or numbers.
C9_EveryObjectIdColumnRewritten ==
    /\ df.built => \A c \in Range(df.columns) : ~HoldsObjectId(df, c)
    /\ (RunEnded /\ df.built /\ raised.exc \notin {"MemoryError", "ImportError"})
          => artifact.handed

\* C10: close is called exactly when a client was constructed: a run that
\* failed while parsing or constructing the client makes no close call and
\* logs no "closed" record; a run whose client was constructed but whose
\* server_info() failed makes exactly one close call.
C10_CloseIffClientConstructed ==
    RunEnded =>
        /\ closeCalls = (IF client # "None" THEN 1 ELSE 0)
        /\ Logged("MongoDB connection closed") => client # "None"
        /\ raised.at \in {"ParsingFilter", "Connecting"}
              => (closeCalls = 0 /\ ~Logged("MongoDB connection closed"))
        /\ raised.at = "Checking" => (closeCalls = 1 /\ ~connected)

C10_Witness ==
    /\ RunEnded
    /\ raised.at = "Checking"
    /\ ~connected
    /\ closeCalls = 1

====
